---- MODULE Spec2Model ----
(***************************************************************************)
(* Model of acq400_hapi/acq400.py: the status monitor thread               *)
(* (Statusmonitor.st_monitor), the blocking waits built on it              *)
(* (Statusmonitor.wait_event) and the channel data reader                  *)
(* (Channelclient.read).                                                   *)
(***************************************************************************)
EXTENDS Integers, Sequences, FiniteSets, TLC

VARIABLES
    status,          \* Statusmonitor.status: the current snapshot (list of ints)
    armed,           \* Statusmonitor.armed   (threading.Event flag)
    stopped,         \* Statusmonitor.stopped (threading.Event flag)
    quit_requested,  \* Statusmonitor.quit_requested
    ppc,             \* position of the st_monitor thread
    st,              \* st_monitor's local: the record returned by logclient.poll()
    sigint,          \* number of SIGINTs sent to main_pid by os.kill
    wpc,             \* position of each caller thread with respect to wait_event
    wev,             \* wait_event's parameter ev of each caller inside a wait
    raised,          \* history: the events set() while processing the record st
    pending,         \* history: per event, a set() not yet observed by any wait
    rpc,             \* position of a caller inside Channelclient.read
    ndata,           \* read's argument ndata
    data_size,       \* read's argument data_size
    maxbuf,          \* read's argument maxbuf
    buffer,          \* read's local buffer
    wire,            \* bytes the channel server has still to deliver
    peer,            \* what the channel connection does once wire is empty
    sent,            \* history: every byte the channel server was given to send
    result,          \* what read returned
    eofs,            \* history: number of recv calls that returned b''
    statmon,         \* whether the Acq400 handle has the attribute statmon
    seed,            \* Acq400.__init__'s local _status
    apc,             \* position of a caller inside an accessor of Acq400
    acc,             \* the accessor that caller is in
    atmp,            \* the value of self.pre_samples() held while post_samples() runs
    aret,            \* the value the accessor returned
    aerr,            \* the exception the accessor raised
    asnap,           \* history: the snapshot the accessor's first read was made of
    cpc,             \* position of a caller inside read_channels
    selection,       \* history: the argument read_channels was called with
    channels,        \* read_channels' variable channels
    NCHAN,           \* the knob s0.NCHAN
    citer,           \* what the for loop over channels has still to yield
    ch,              \* the loop variable
    chx,             \* the result list
    clog             \* history: the starts and ends of the read_chan calls

mvars == <<status, armed, stopped, quit_requested, ppc, st, sigint, wpc, wev,
           raised, pending>>
rvars == <<rpc, ndata, data_size, maxbuf, buffer, wire, peer, sent, result, eofs>>
avars == <<statmon, seed, apc, acc, atmp, aret, aerr, asnap>>
cvars == <<cpc, selection, channels, NCHAN, citer, ch, chx, clog>>
vars == <<status, armed, stopped, quit_requested, ppc, st, sigint, wpc, wev,
          raised, pending, rpc, ndata, data_size, maxbuf, buffer, wire, peer,
          sent, result, eofs, statmon, seed, apc, acc, atmp, aret, aerr, asnap,
          cpc, selection, channels, NCHAN, citer, ch, chx, clog>>

(***************************************************************************)
(* class SF: indices into the status list (python lists are 0-based).      *)
(***************************************************************************)
sf_STATE == 0
sf_PRE == 1
sf_POST == 2
sf_ELAPSED == 3
sf_DEMUX == 5

\* python list indexing list[i], defined for 0 <= i < len(list)
Item(list, i) == list[i + 1]

(***************************************************************************)
(* Text.  A text is a sequence of one-character strings.                   *)
(***************************************************************************)
Digits == {"0", "1", "2", "3", "4", "5", "6", "7", "8", "9"}

DigitVal(c) ==
    CASE c = "0" -> 0 [] c = "1" -> 1 [] c = "2" -> 2 [] c = "3" -> 3
      [] c = "4" -> 4 [] c = "5" -> 5 [] c = "6" -> 6 [] c = "7" -> 7
      [] c = "8" -> 8 [] c = "9" -> 9

\* int(x) for a non-empty text of decimal digits
RECURSIVE ToInt(_)
ToInt(x) ==
    IF Len(x) = 0 THEN 0
    ELSE 10 * ToInt(SubSeq(x, 1, Len(x) - 1)) + DigitVal(x[Len(x)])

\* x.split(" "): the pieces between single spaces
RECURSIVE Split(_)
Split(x) ==
    IF \A i \in 1..Len(x) : x[i] # " " THEN <<x>>
    ELSE LET k == CHOOSE i \in 1..Len(x) :
                      x[i] = " " /\ \A j \in 1..(i - 1) : x[j] # " "
         IN <<SubSeq(x, 1, k - 1)>> \o Split(SubSeq(x, k + 1, Len(x)))

\* " ".join(fields)
RECURSIVE Join(_)
Join(fields) ==
    IF Len(fields) = 0 THEN <<>>
    ELSE IF Len(fields) = 1 THEN fields[1]
    ELSE fields[1] \o <<" ">> \o Join(Tail(fields))

(***************************************************************************)
(* st_re = ([0-9]) ([0-9]+) ([0-9]+) ([0-9]+) ([0-9])+                     *)
(***************************************************************************)
NoMatch == <<>>

\* the last position of the run of digits of s that starts at i (i - 1: no digit at i)
RECURSIVE RunEnd(_, _)
RunEnd(s, i) ==
    IF i <= Len(s) /\ s[i] \in Digits THEN RunEnd(s, i + 1) ELSE i - 1

IsSpaceAt(s, i) == i <= Len(s) /\ s[i] = " "

\* st_re matched with its first character at position i: the groups, or NoMatch.
\* [0-9]+ is greedy and must be followed by the literal space, so each group is a
\* whole run of digits; the repeated group ([0-9])+ keeps its last repetition.
MatchAt(s, i) ==
    LET e2 == RunEnd(s, i + 2)
        e3 == RunEnd(s, e2 + 2)
        e4 == RunEnd(s, e3 + 2)
        e5 == RunEnd(s, e4 + 2)
    IN IF /\ i <= Len(s) /\ s[i] \in Digits
          /\ IsSpaceAt(s, i + 1)
          /\ e2 >= i + 2 /\ IsSpaceAt(s, e2 + 1)
          /\ e3 >= e2 + 2 /\ IsSpaceAt(s, e3 + 1)
          /\ e4 >= e3 + 2 /\ IsSpaceAt(s, e4 + 1)
          /\ e5 >= e4 + 2
       THEN << <<s[i]>>, SubSeq(s, i + 2, e2), SubSeq(s, e2 + 2, e3),
               SubSeq(s, e3 + 2, e4), <<s[e5]>> >>
       ELSE NoMatch

\* st_re.search(s).groups(): the leftmost match, or NoMatch
st_re_search(s) ==
    IF \E i \in 1..Len(s) : MatchAt(s, i) # NoMatch
    THEN MatchAt(s, CHOOSE i \in 1..Len(s) :
                        /\ MatchAt(s, i) # NoMatch
                        /\ \A j \in 1..(i - 1) : MatchAt(s, j) = NoMatch)
    ELSE NoMatch

\* status1 = [int(x) for x in statuss]
Ints(groups) == [k \in 1..Len(groups) |-> ToInt(groups[k])]

(***************************************************************************)
(* The telemetry records the appliance may send, and the answers of the    *)
(* synchronous status query s0.state that seeds the snapshot.              *)
(***************************************************************************)
F0 == <<"0">>
F1 == <<"1">>
F2 == <<"2">>
F3 == <<"3">>
F12 == <<"1", "2">>
F15 == <<"1", "5">>
F50 == <<"5", "0">>
F60 == <<"6", "0">>
F100 == <<"1", "0", "0">>
F500 == <<"5", "0", "0">>
F900 == <<"9", "0", "0">>
F1000 == <<"1", "0", "0", "0">>

Records ==
    { Join(<<F0, F100, F900, F0, F0>>),        \* "0 100 900 0 0"
      Join(<<F1, F100, F900, F0, F0>>),        \* "1 100 900 0 0"
      Join(<<F2, F100, F900, F15, F0>>),       \* "2 100 900 15 0"
      Join(<<F0, F100, F900, F1000, F0>>),     \* "0 100 900 1000 0"
      Join(<<F3, F100, F900, F500, F0>>),      \* "3 100 900 500 0"
      Join(<<F1, F50, F60, F0, F12>>),         \* "1 50 60 0 12"
      <<"0", " ", " ", "1", " ", "2", " ", "0", " ", "0">>,  \* "0  1 2 0 0"
      <<"x">> }

SeedTexts ==
    { Join(<<F0, F0, F0, F0, F0>>),            \* "0 0 0 0 0"
      Join(<<F2, F100, F900, F15, F0>>) }      \* "2 100 900 15 0"

\* Acq400.__init__: _status = [int(x) for x in s0.state.split(" ")]
SeedStatus(text) == Ints(Split(text))

(***************************************************************************)
(* Statusmonitor                                                           *)
(***************************************************************************)
Events == {"armed", "stopped"}
Callers == {1, 2}
\* the caller that is the main thread of the process main_pid
MainThread == 1

IsSet(e) == IF e = "armed" THEN armed ELSE stopped

\* mutants of the edges: Stopped on every record of state 0, Armed only on a
\* transition into state 1, the fault only above state 2
StoppedEdge_AnyZero(prev, new) == Item(new, sf_STATE) = 0

ArmedEdge_OnTransition(prev, new) == Item(prev, sf_STATE) # 1 /\ Item(new, sf_STATE) = 1

SequencingFault_Above2(prev, new) == Item(prev, sf_STATE) = 0 /\ Item(new, sf_STATE) > 2

\* mutant of SequencingFault: the fault taken from state 1 upwards
SequencingFault_FromState1(prev, new) ==
    Item(prev, sf_STATE) = 0 /\ Item(new, sf_STATE) >= 1

\* the three edges st_monitor derives from the previous snapshot and the new one
StoppedEdge(prev, new) == Item(prev, sf_STATE) # 0 /\ Item(new, sf_STATE) = 0

ArmedEdge(prev, new) == Item(new, sf_STATE) = 1

SequencingFault(prev, new) == Item(prev, sf_STATE) = 0 /\ Item(new, sf_STATE) > 1

\* status1 of the record held in st
status1 == Ints(st_re_search(st))

NoRecord == <<>>

MonitorInit ==
    /\ status \in {SeedStatus(t) : t \in SeedTexts}
    /\ armed = FALSE
    /\ stopped = FALSE
    /\ quit_requested = FALSE
    /\ ppc = "loop"
    /\ st = NoRecord
    /\ sigint = 0
    /\ wpc = [w \in Callers |-> "idle"]
    /\ wev = [w \in Callers |-> "none"]
    /\ raised = {}
    /\ pending = [e \in Events |-> FALSE]

\* while self.quit_requested == False: st = self.logclient.poll()
Poll ==
    /\ ppc = "loop"
    /\ IF quit_requested = FALSE
       THEN \E r \in Records : st' = r /\ ppc' = "match"
       ELSE st' = st /\ ppc' = "returned"
    /\ raised' = {}
    /\ UNCHANGED <<status, armed, stopped, quit_requested, sigint, wpc, wev, pending>>

\* logclient.poll() raises (the telemetry connection failed): nothing in
\* st_monitor catches it, the exception ends the thread
PollFail ==
    /\ ppc = "loop"
    /\ quit_requested = FALSE
    /\ ppc' = "crashed"
    /\ UNCHANGED <<status, armed, stopped, quit_requested, st, sigint, wpc, wev,
                   raised, pending>>

\* mutant of Edges: a record that does not match drops the snapshot
Edges_NoMatchDropsStatus ==
    /\ ppc = "match"
    /\ IF st_re_search(st) = NoMatch
       THEN /\ ppc' = "loop"
            /\ status' = NoRecord
            /\ UNCHANGED <<armed, stopped, quit_requested, raised, pending>>
       ELSE LET stop == status # NoRecord /\ StoppedEdge(status, status1)
                arm == status # NoRecord /\ ArmedEdge(status, status1)
                fault == status # NoRecord /\ SequencingFault(status, status1)
            IN /\ stopped' = (stopped \/ stop)
               /\ armed' = (armed \/ arm)
               /\ raised' = {e \in Events : (e = "stopped" /\ stop) \/ (e = "armed" /\ arm)}
               /\ pending' = [e \in Events |-> pending[e] \/ (e = "stopped" /\ stop)
                                                          \/ (e = "armed" /\ arm)]
               /\ quit_requested' = (quit_requested \/ fault)
               /\ ppc' = IF fault THEN "kill" ELSE "store"
               /\ status' = status
    /\ UNCHANGED <<st, sigint, wpc, wev>>

\* match = self.st_re.search(st) and the edges of lines 105-121
Edges ==
    /\ ppc = "match"
    /\ IF st_re_search(st) = NoMatch
       THEN /\ ppc' = "loop"
            /\ UNCHANGED <<armed, stopped, quit_requested, raised, pending>>
       ELSE LET stop == status # NoRecord /\ StoppedEdge(status, status1)
                arm == status # NoRecord /\ ArmedEdge(status, status1)
                fault == status # NoRecord /\ SequencingFault(status, status1)
            IN /\ stopped' = (stopped \/ stop)
               /\ armed' = (armed \/ arm)
               /\ raised' = {e \in Events : (e = "stopped" /\ stop) \/ (e = "armed" /\ arm)}
               /\ pending' = [e \in Events |-> pending[e] \/ (e = "stopped" /\ stop)
                                                          \/ (e = "armed" /\ arm)]
               /\ quit_requested' = (quit_requested \/ fault)
               /\ ppc' = IF fault THEN "kill" ELSE "store"
    /\ UNCHANGED <<status, st, sigint, wpc, wev>>

\* mutant of Store: the snapshot is left as it was
Store_Skip ==
    /\ ppc = "store"
    /\ ppc' = "loop"
    /\ UNCHANGED <<status, armed, stopped, quit_requested, st, sigint, wpc, wev,
                   raised, pending>>

\* self.status = status1
Store ==
    /\ ppc = "store"
    /\ status' = status1
    /\ ppc' = "loop"
    /\ UNCHANGED <<armed, stopped, quit_requested, st, sigint, wpc, wev, raised, pending>>

\* os.kill(self.main_pid, signal.SIGINT); sys.exit(1)
Kill ==
    /\ ppc = "kill"
    /\ sigint' = sigint + 1
    /\ ppc' = "exited"
    /\ UNCHANGED <<status, armed, stopped, quit_requested, st, wpc, wev, raised, pending>>

\* the SIGINT reaches the main thread, wherever it is: KeyboardInterrupt
Interrupt ==
    /\ sigint > 0
    /\ wpc[MainThread] \notin {"aborted", "interrupted"}
    /\ wpc' = [wpc EXCEPT ![MainThread] = "interrupted"]
    /\ wev' = [wev EXCEPT ![MainThread] = "none"]
    /\ UNCHANGED <<status, armed, stopped, quit_requested, ppc, st, sigint, raised, pending>>

\* wait_armed() / wait_stopped(): enter wait_event with ev
CallWait(w, e) ==
    /\ wpc[w] = "idle"
    /\ wpc' = [wpc EXCEPT ![w] = "waiting"]
    /\ wev' = [wev EXCEPT ![w] = e]
    /\ UNCHANGED <<status, armed, stopped, quit_requested, ppc, st, sigint, raised, pending>>

\* ev.wait(0.1): True when the flag is set, False when the 0.1 s ran out
Tick(w) ==
    /\ wpc[w] = "waiting"
    /\ IF IsSet(wev[w])
       THEN /\ wpc' = [wpc EXCEPT ![w] = "observed"]
            /\ pending' = [pending EXCEPT ![wev[w]] = FALSE]
       ELSE /\ wpc' = [wpc EXCEPT ![w] = "timedout"]
            /\ pending' = pending
    /\ UNCHANGED <<status, armed, stopped, quit_requested, ppc, st, sigint, wev, raised>>

\* mutant of CheckQuit: the poll tick does not look at quit_requested
CheckQuit_Never(w) ==
    /\ wpc[w] = "timedout"
    /\ wpc' = [wpc EXCEPT ![w] = "waiting"]
    /\ UNCHANGED <<status, armed, stopped, quit_requested, ppc, st, sigint, wev,
                   raised, pending>>

\* if self.quit_requested: sys.exit(1)
CheckQuit(w) ==
    /\ wpc[w] = "timedout"
    /\ IF quit_requested
       THEN /\ wpc' = [wpc EXCEPT ![w] = "aborted"]
            /\ wev' = [wev EXCEPT ![w] = "none"]
       ELSE /\ wpc' = [wpc EXCEPT ![w] = "waiting"]
            /\ wev' = wev
    /\ UNCHANGED <<status, armed, stopped, quit_requested, ppc, st, sigint, raised, pending>>

\* mutant of Clear: the return of a wait also resets quit_requested
Clear_ResetsQuit(w) ==
    /\ wpc[w] = "observed"
    /\ armed' = (armed /\ wev[w] # "armed")
    /\ stopped' = (stopped /\ wev[w] # "stopped")
    /\ quit_requested' = FALSE
    /\ wpc' = [wpc EXCEPT ![w] = "idle"]
    /\ wev' = [wev EXCEPT ![w] = "none"]
    /\ UNCHANGED <<status, ppc, st, sigint, raised, pending>>

\* ev.clear() and the return of wait_event
Clear(w) ==
    /\ wpc[w] = "observed"
    /\ armed' = (armed /\ wev[w] # "armed")
    /\ stopped' = (stopped /\ wev[w] # "stopped")
    /\ wpc' = [wpc EXCEPT ![w] = "idle"]
    /\ wev' = [wev EXCEPT ![w] = "none"]
    /\ UNCHANGED <<status, quit_requested, ppc, st, sigint, raised, pending>>

WaiterStep(w) == Tick(w) \/ CheckQuit(w) \/ Clear(w)

(***************************************************************************)
(* Channelclient.read(ndata, data_size, maxbuf)                            *)
(***************************************************************************)
MaxNdata == 2
MaxBuf == 3
MaxStream == 9
MaxEofs == 2

DataSizes == {2, 4}
StreamSeeds == {1, 85, 255}
Peers == {"open", "closed", "reset"}

\* the byte stream of a channel server: len bytes, byte i being (k * i) mod 256
Stream(len, k) == [i \in 1..len |-> (k * i) % 256]

Min(a, b) == IF a < b THEN a ELSE b

RECURSIVE Unsigned(_)
Unsigned(bytes) ==
    IF Len(bytes) = 0 THEN 0 ELSE bytes[1] + 256 * Unsigned(Tail(bytes))

RECURSIVE Pow256(_)
Pow256(n) == IF n = 0 THEN 1 ELSE 256 * Pow256(n - 1)

\* one element of dtype i2 / i4: a two's complement integer, least significant
\* byte first (the byte order of the hosts numpy.dtype('i2') is native on)
DecodeInt(bytes) ==
    LET n == Len(bytes)
        top == IF bytes[n] >= 128 THEN bytes[n] - 256 ELSE bytes[n]
    IN Unsigned(SubSeq(bytes, 1, n - 1)) + top * Pow256(n - 1)

\* _dtype: i4 when data_size == 4, else i2
ItemSize(size) == IF size = 4 THEN 4 ELSE 2

\* numpy.frombuffer raises ValueError: buffer is smaller than requested size
BufferTooSmall(buf, itemsize, count) == Len(buf) < count * itemsize

\* numpy.frombuffer(buf, dtype=_dtype, count=count) of a buffer that is large enough
frombuffer(buf, itemsize, count) ==
    [k \in 1..count |-> DecodeInt(SubSeq(buf, (k - 1) * itemsize + 1, k * itemsize))]

\* mutant of Accumulate: buffer = chunk
Accumulate_Overwrite(buf, chunk) == chunk

\* buffer += chunk
Accumulate(buf, chunk) == buf \o chunk

\* while len(buffer) < ndata*data_size
MoreNeeded(buf, n, size) == Len(buf) < n * size

ReadIdle ==
    /\ rpc = "idle"
    /\ ndata = 0
    /\ data_size = 2
    /\ maxbuf = 1
    /\ buffer = <<>>
    /\ wire = <<>>
    /\ peer = "open"
    /\ sent = <<>>
    /\ result = <<>>
    /\ eofs = 0

\* a call read(ndata, data_size, maxbuf) on a fresh connection
ReadCall ==
    /\ rpc = "recv"
    /\ ndata \in 0..MaxNdata
    /\ data_size \in DataSizes
    /\ maxbuf \in 1..MaxBuf
    /\ buffer = <<>>
    /\ wire \in {Stream(len, k) : len \in 0..MaxStream, k \in StreamSeeds}
    /\ peer \in Peers
    /\ sent = wire
    /\ result = <<>>
    /\ eofs = 0

\* self.sock.recv(maxbuf) returns between 1 and maxbuf of the bytes on the wire
RecvData ==
    /\ rpc = "recv"
    /\ Len(wire) > 0
    /\ \E n \in 1..Min(maxbuf, Len(wire)) :
          /\ buffer' = Accumulate(buffer, SubSeq(wire, 1, n))
          /\ wire' = SubSeq(wire, n + 1, Len(wire))
    /\ rpc' = "test"
    /\ UNCHANGED <<ndata, data_size, maxbuf, peer, sent, result, eofs>>

\* self.sock.recv(maxbuf) on a connection the server has closed returns b''
RecvEof ==
    /\ rpc = "recv"
    /\ Len(wire) = 0
    /\ peer = "closed"
    /\ eofs < MaxEofs
    /\ buffer' = Accumulate(buffer, <<>>)
    /\ eofs' = eofs + 1
    /\ rpc' = "test"
    /\ UNCHANGED <<ndata, data_size, maxbuf, wire, peer, sent, result>>

\* self.sock.recv(maxbuf) on a failed connection raises socket.error
RecvError ==
    /\ rpc = "recv"
    /\ Len(wire) = 0
    /\ peer = "reset"
    /\ rpc' = "raised"
    /\ UNCHANGED <<ndata, data_size, maxbuf, buffer, wire, peer, sent, result, eofs>>

\* while len(buffer) < ndata*data_size: the loop goes round
ReadMore ==
    /\ rpc = "test"
    /\ MoreNeeded(buffer, ndata, data_size)
    /\ rpc' = "recv"
    /\ UNCHANGED <<ndata, data_size, maxbuf, buffer, wire, peer, sent, result, eofs>>

\* return numpy.frombuffer(buffer, dtype=_dtype, count=ndata)
ReadReturn ==
    /\ rpc = "test"
    /\ ~MoreNeeded(buffer, ndata, data_size)
    /\ IF BufferTooSmall(buffer, ItemSize(data_size), ndata)
       THEN rpc' = "raised" /\ result' = result
       ELSE rpc' = "returned" /\ result' = frombuffer(buffer, ItemSize(data_size), ndata)
    /\ UNCHANGED <<ndata, data_size, maxbuf, buffer, wire, peer, sent, eofs>>

(***************************************************************************)
(* Acq400: construction and the snapshot accessors                         *)
(***************************************************************************)
Accessors ==
    {"state", "pre_samples", "post_samples", "elapsed_samples", "demux_status",
     "samples", "read_chan"}

\* the accessors that add self.pre_samples() and self.post_samples()
Sums == {"samples", "read_chan"}

\* the index an accessor reads first
FirstIndex(a) ==
    CASE a = "state" -> sf_STATE
      [] a = "pre_samples" -> sf_PRE
      [] a = "post_samples" -> sf_POST
      [] a = "elapsed_samples" -> sf_ELAPSED
      [] a = "demux_status" -> sf_DEMUX
      [] a \in Sums -> sf_PRE

\* list[i] raises IndexError
OutOfRange(list, i) == i >= Len(list)

\* no accessor is running
AccReset ==
    /\ apc = "idle"
    /\ acc = "none"
    /\ atmp = 0
    /\ aret = 0
    /\ aerr = "none"
    /\ asnap = NoRecord

\* a handle built with monitor=True, as Statusmonitor.__init__ leaves it
AccIdle ==
    /\ statmon = TRUE
    /\ seed = status
    /\ AccReset

\* Acq400.__init__(_uut, monitor): _status is computed from s0.state, and only
\* `if monitor:` is self.statmon = Statusmonitor(self.uut, _status) executed
Acq400Init ==
    /\ seed \in {SeedStatus(t) : t \in SeedTexts}
    /\ statmon \in BOOLEAN
    /\ status = IF statmon THEN seed ELSE NoRecord
    /\ ppc = IF statmon THEN "loop" ELSE "none"
    /\ armed = FALSE
    /\ stopped = FALSE
    /\ quit_requested = FALSE
    /\ st = NoRecord
    /\ sigint = 0
    /\ wpc = [w \in Callers |-> "idle"]
    /\ wev = [w \in Callers |-> "none"]
    /\ raised = {}
    /\ pending = [e \in Events |-> FALSE]
    /\ AccReset

\* the first self.statmon.status[SF.x] of accessor a: self.statmon is looked up by
\* __getattr__ when the handle has no such attribute, which raises AttributeError
AccFirst(a) ==
    /\ apc = "idle"
    /\ acc' = a
    /\ IF ~statmon
       THEN apc' = "raised" /\ aerr' = "AttributeError"
                /\ UNCHANGED <<atmp, aret, asnap>>
       ELSE IF OutOfRange(status, FirstIndex(a))
       THEN apc' = "raised" /\ aerr' = "IndexError"
                /\ UNCHANGED <<atmp, aret, asnap>>
       ELSE IF a \in Sums
       THEN apc' = "mid" /\ atmp' = Item(status, FirstIndex(a)) /\ asnap' = status
                /\ UNCHANGED <<aret, aerr>>
       ELSE apc' = "returned" /\ aret' = Item(status, FirstIndex(a)) /\ asnap' = status
                /\ UNCHANGED <<atmp, aerr>>
    /\ UNCHANGED <<statmon, seed>>

\* self.pre_samples() + self.post_samples(): the second read and the sum
AccSecond ==
    /\ apc = "mid"
    /\ IF OutOfRange(status, sf_POST)
       THEN apc' = "raised" /\ aerr' = "IndexError" /\ aret' = aret
       ELSE apc' = "returned" /\ aret' = atmp + Item(status, sf_POST) /\ aerr' = aerr
    /\ UNCHANGED <<statmon, seed, acc, atmp, asnap>>

\* the caller goes on after the accessor returned or raised
AccDone ==
    /\ apc \in {"returned", "raised"}
    /\ apc' = "idle"
    /\ acc' = "none"
    /\ atmp' = 0
    /\ aret' = 0
    /\ aerr' = "none"
    /\ asnap' = NoRecord
    /\ UNCHANGED <<statmon, seed>>

(***************************************************************************)
(* Acq400.read_channels(channels=())                                       *)
(***************************************************************************)
MaxChan == 3
MaxSel == 2

\* a value passed as channels: a tuple or a list of channel numbers (items), or
\* one int (held as the only item)
Selections ==
    [kind : {"tuple", "list"},
     items : UNION {[1..n -> 1..MaxChan] : n \in 0..MaxSel}]
        \cup [kind : {"int"}, items : {<<n>> : n \in 1..MaxChan}]

\* the default argument ()
EmptyTuple == [kind |-> "tuple", items |-> <<>>]

\* range(a, b)
Range(a, b) == [i \in 1..(b - a) |-> a + i - 1]

\* lines 247-250: channels == () holds of the empty tuple only (in python a
\* list and an int never equal a tuple); type(channels) == int of an int
Selected(c, n) ==
    IF c = EmptyTuple THEN [kind |-> "range", items |-> Range(1, n + 1)]
    ELSE IF c.kind = "int" THEN [kind |-> "tuple", items |-> c.items]
    ELSE c

\* the status a handle holds after a shot of 1 pre and 2 post samples
ShotTexts == { Join(<<F0, F1, F2, F0, F0>>) }    \* "0 1 2 0 0"

\* read_chan(chan): Channelclient(self.uut, chan).read(count) with the default
\* data_size 2, on the data server of channel chan
ChannelData(chan, count) == frombuffer(Stream(count * 2, chan), 2, count)

ChanIdle ==
    /\ cpc = "idle"
    /\ selection = EmptyTuple
    /\ channels = EmptyTuple
    /\ NCHAN = 1
    /\ citer = <<>>
    /\ ch = 0
    /\ chx = <<>>
    /\ clog = <<>>

\* a call read_channels(channels) on a handle of NCHAN channels
ChanCall ==
    /\ cpc = "select"
    /\ selection \in Selections
    /\ channels = selection
    /\ NCHAN \in 1..MaxChan
    /\ citer = <<>>
    /\ ch = 0
    /\ chx = <<>>
    /\ clog = <<>>

\* the if / elif on channels, chx = [], and the start of the for loop
Select ==
    /\ cpc = "select"
    /\ channels' = Selected(channels, NCHAN)
    /\ citer' = channels'.items
    /\ chx' = <<>>
    /\ cpc' = "loop"
    /\ UNCHANGED <<selection, NCHAN, ch, clog>>

\* for ch in channels: the next channel, and the call self.read_chan(ch)
LoopNext ==
    /\ cpc = "loop"
    /\ citer # <<>>
    /\ ch' = Head(citer)
    /\ citer' = Tail(citer)
    /\ clog' = Append(clog, <<"start", ch'>>)
    /\ cpc' = "read_chan"
    /\ UNCHANGED <<selection, channels, NCHAN, chx>>

\* read_chan returns ccraw, read with the count pre_samples() + post_samples();
\* chx.append(...)
ReadChanReturn ==
    /\ cpc = "read_chan"
    /\ chx' = Append(chx, ChannelData(ch, Item(status, sf_PRE) + Item(status, sf_POST)))
    /\ clog' = Append(clog, <<"end", ch>>)
    /\ cpc' = "loop"
    /\ UNCHANGED <<selection, channels, NCHAN, citer, ch>>

\* the loop is exhausted: return chx
ChanReturn ==
    /\ cpc = "loop"
    /\ citer = <<>>
    /\ cpc' = "returned"
    /\ UNCHANGED <<selection, channels, NCHAN, citer, ch, chx, clog>>

(***************************************************************************)
(* The records st_re is applied to: five fields of 1..MaxDigits digits,    *)
(* separated by whitespace.                                                *)
(***************************************************************************)
MaxDigits == 2

FieldDigits == {"0", "2"}
FieldTexts == UNION {[1..n -> FieldDigits] : n \in 1..MaxDigits}
Gaps == { <<" ">>, <<" ", " ">> }

\* the fields f written one after another with gap between them
RECURSIVE JoinWith(_, _)
JoinWith(f, gap) ==
    IF Len(f) = 0 THEN <<>>
    ELSE IF Len(f) = 1 THEN f[1]
    ELSE f[1] \o gap \o JoinWith(Tail(f), gap)

ValidRecords ==
    { JoinWith(f, gap) : f \in [1..5 -> FieldTexts], gap \in Gaps }

\* st_monitor with one record polled
PolledOne ==
    /\ status \in {SeedStatus(t) : t \in SeedTexts}
    /\ armed = FALSE
    /\ stopped = FALSE
    /\ quit_requested = FALSE
    /\ ppc = "match"
    /\ st \in ValidRecords
    /\ sigint = 0
    /\ wpc = [w \in Callers |-> "idle"]
    /\ wev = [w \in Callers |-> "none"]
    /\ raised = {}
    /\ pending = [e \in Events |-> FALSE]

\* a handle after a shot, its monitor thread not polling
AfterShot ==
    /\ status \in {SeedStatus(t) : t \in ShotTexts}
    /\ armed = FALSE
    /\ stopped = FALSE
    /\ quit_requested = FALSE
    /\ ppc = "loop"
    /\ st = NoRecord
    /\ sigint = 0
    /\ wpc = [w \in Callers |-> "idle"]
    /\ wev = [w \in Callers |-> "none"]
    /\ raised = {}
    /\ pending = [e \in Events |-> FALSE]

Init == MonitorInit /\ ReadIdle /\ AccIdle /\ ChanIdle

Next ==
    \/ (Poll /\ UNCHANGED <<rvars, avars, cvars>>)
    \/ (PollFail /\ UNCHANGED <<rvars, avars, cvars>>)
    \/ (Edges /\ UNCHANGED <<rvars, avars, cvars>>)
    \/ (Store /\ UNCHANGED <<rvars, avars, cvars>>)
    \/ (Kill /\ UNCHANGED <<rvars, avars, cvars>>)
    \/ (Interrupt /\ UNCHANGED <<rvars, avars, cvars>>)
    \/ (\E w \in Callers, e \in Events : CallWait(w, e) /\ UNCHANGED <<rvars, avars, cvars>>)
    \/ (\E w \in Callers : Tick(w) /\ UNCHANGED <<rvars, avars, cvars>>)
    \/ (\E w \in Callers : CheckQuit(w) /\ UNCHANGED <<rvars, avars, cvars>>)
    \/ (\E w \in Callers : Clear(w) /\ UNCHANGED <<rvars, avars, cvars>>)

Spec == Init /\ [][Next]_vars

\* the scheduler runs every thread that is inside wait_event
FairSpec == Spec /\ \A w \in Callers : WF_vars(WaiterStep(w) /\ UNCHANGED <<rvars, avars, cvars>>)

ReadInit == MonitorInit /\ ReadCall /\ AccIdle /\ ChanIdle

ReadNext ==
    \/ (RecvData /\ UNCHANGED <<mvars, avars, cvars>>)
    \/ (RecvEof /\ UNCHANGED <<mvars, avars, cvars>>)
    \/ (RecvError /\ UNCHANGED <<mvars, avars, cvars>>)
    \/ (ReadMore /\ UNCHANGED <<mvars, avars, cvars>>)
    \/ (ReadReturn /\ UNCHANGED <<mvars, avars, cvars>>)

ReadSpec == ReadInit /\ [][ReadNext]_vars

ProxyInit == Acq400Init /\ ReadIdle /\ ChanIdle

ProxyNext ==
    \/ (Poll /\ UNCHANGED <<rvars, avars, cvars>>)
    \/ (Edges /\ UNCHANGED <<rvars, avars, cvars>>)
    \/ (Store /\ UNCHANGED <<rvars, avars, cvars>>)
    \/ (Kill /\ UNCHANGED <<rvars, avars, cvars>>)
    \/ (\E a \in Accessors : AccFirst(a) /\ UNCHANGED <<mvars, rvars, cvars>>)
    \/ (AccSecond /\ UNCHANGED <<mvars, rvars, cvars>>)
    \/ (AccDone /\ UNCHANGED <<mvars, rvars, cvars>>)

ProxySpec == ProxyInit /\ [][ProxyNext]_vars

ChanInit == AfterShot /\ ReadIdle /\ AccIdle /\ ChanCall

ChanNext ==
    \/ (Select /\ UNCHANGED <<mvars, rvars, avars>>)
    \/ (LoopNext /\ UNCHANGED <<mvars, rvars, avars>>)
    \/ (ReadChanReturn /\ UNCHANGED <<mvars, rvars, avars>>)
    \/ (ChanReturn /\ UNCHANGED <<mvars, rvars, avars>>)

ChanSpec == ChanInit /\ [][ChanNext]_vars

ParseInit == PolledOne /\ ReadIdle /\ AccIdle /\ ChanIdle

ParseNext ==
    \/ (Edges /\ UNCHANGED <<rvars, avars, cvars>>)
    \/ (Store /\ UNCHANGED <<rvars, avars, cvars>>)
    \/ (Kill /\ UNCHANGED <<rvars, avars, cvars>>)

ParseSpec == ParseInit /\ [][ParseNext]_vars

(***************************************************************************)
(* Properties of the status monitor (Spec, FairSpec)                       *)
(***************************************************************************)
\* the poller has computed the edges of the parsed record st; status is still the
\* previous snapshot
EdgesDone == ppc \in {"store", "kill"}

\* C1: a parsed record raises Stopped exactly when the previous snapshot's state
\* is nonzero and the record's state is 0 (one set() for that record), and the
\* stopped flag never goes up in any other step.
C1_StoppedExactlyOnEdge ==
    /\ [](EdgesDone =>
            (("stopped" \in raised)
                <=> (Item(status, 0) # 0 /\ Item(status1, 0) = 0)))
    /\ [][(~stopped /\ stopped') =>
            (ppc = "match" /\ Item(status, 0) # 0 /\ Item(status1, 0) = 0)]_vars

C1_Witness ==
    /\ ppc = "store"
    /\ "stopped" \in raised
    /\ Item(status, 0) = 2
    /\ Item(status1, 0) = 0

\* C2: every parsed record of state 1 raises Armed, whatever the previous
\* snapshot was (state 1 again, or the snapshot seeded at construction).
C2_ArmedOnEveryState1 ==
    (EdgesDone /\ Item(status1, 0) = 1) => ("armed" \in raised /\ ppc = "store")

C2_Witness ==
    /\ ppc = "store"
    /\ Item(status, 0) = 1
    /\ Item(status1, 0) = 1
    /\ "armed" \in raised

\* C3: a parsed record of state > 1 on a previous state 0 takes the fatal path, and
\* only such a record does; the path sets quit_requested, sends one SIGINT to the
\* owning process and ends the loop, after which the poller changes nothing: no
\* record is taken, no event is set and the snapshot stays.
C3_SequencingFaultIsFatal ==
    /\ [](ppc = "store" => ~(Item(status, 0) = 0 /\ Item(status1, 0) > 1))
    /\ [](ppc = "kill" =>
            (Item(status, 0) = 0 /\ Item(status1, 0) > 1
             /\ quit_requested /\ sigint = 0))
    /\ [](ppc = "exited" => (quit_requested /\ sigint = 1))
    /\ [](quit_requested => ppc \in {"kill", "exited"})
    /\ [][ppc = "exited" =>
            (/\ ppc' = "exited" /\ st' = st /\ status' = status
             /\ raised' = raised /\ sigint' = sigint
             /\ (armed' => armed) /\ (stopped' => stopped))]_vars

C3_Witness ==
    /\ ppc = "exited"
    /\ quit_requested
    /\ sigint = 1
    /\ Item(status, 0) = 0
    /\ Item(status1, 0) = 3

\* caller w is inside wait_event
Blocked(w) == wpc[w] \in {"waiting", "timedout", "observed"}

\* C4: a wait consumes its signal atomically with observing it: whenever no wait
\* on an event is between its observation and its return, the event's flag is set
\* exactly when the event was raised after the last observation, so a raise that
\* follows an observation is still there for the next wait.
C4_ConsumedWithObservation ==
    \A e \in Events :
        (\A w \in Callers : ~(wpc[w] = "observed" /\ wev[w] = e))
            => (IsSet(e) = pending[e])

\* C5: one raise releases at most one waiter: a wait observes its event set only
\* when the event was raised after the last observation by any wait.
C5_OneWaiterPerRaise ==
    [][\A w \in Callers :
          (wpc[w] = "waiting" /\ wpc'[w] = "observed") => pending[wev[w]]]_vars

\* C6: a poll tick of a wait made while quit_requested is set never lets the wait
\* go on to return normally.
C6_NoReturnOnceCancelled ==
    [][\A w \in Callers :
          (wpc[w] = "waiting" /\ quit_requested) => wpc'[w] # "observed"]_vars

\* no other caller is inside a wait on the event w waits on
Alone(w) == \A v \in Callers \ {w} : wev[v] # wev[w]

C8_PollFailureIsFatal ==
    ppc = "crashed" => (quit_requested /\ sigint > 0)

\* C15: quit_requested starts false and, once true, stays true in every step of
\* the poller, the waits and the callers.
C15_QuitIsOneWay ==
    /\ ~quit_requested
    /\ [][quit_requested => quit_requested']_vars

C15_Witness ==
    /\ quit_requested
    /\ wpc[MainThread] = "interrupted"
    /\ \E w \in Callers : wpc[w] = "idle"

\* the record held in st matched the status pattern
Matched == st_re_search(st) # NoMatch

\* C18 as stated: once the poller is through with a parsed record, whichever edge
\* the record produced, the snapshot is that record's vector.
C18_SnapshotIsLastParsed ==
    (ppc \in {"loop", "exited"} /\ Matched) => status = status1

\* C18 as amended: once the poller is through with a parsed record that is not a
\* sequencing fault the snapshot is that record's vector; a record that is a
\* sequencing fault ends the poller with the snapshot left at the previous one.
C18_SnapshotIsLastParsedUnlessFault ==
    /\ (ppc = "loop" /\ Matched) => status = status1
    /\ ppc = "exited" =>
          (Item(status, 0) = 0 /\ Item(status1, 0) > 1 /\ status # status1)

C18_Witness ==
    /\ ppc = "loop"
    /\ Matched
    /\ status = status1
    /\ "stopped" \in raised

\* C19: the step in which the poller is through with a record that does not match
\* leaves the snapshot, both events and quit_requested as they were, and the
\* poller goes back to polling.
C19_NoMatchNoEffect ==
    [][(ppc = "match" /\ ~Matched /\ ppc' # "match") =>
          (/\ ppc' = "loop"
           /\ status' = status
           /\ armed' = armed
           /\ stopped' = stopped
           /\ quit_requested' = quit_requested)]_vars

C19_Witness ==
    /\ ppc = "loop"
    /\ st # NoRecord
    /\ ~Matched
    /\ Item(status, 0) = 1

\* C20: a parsed record gives at most one of Stopped raised, Armed raised and the
\* sequencing fault; the record that gives the fault raises no event.
C20_AtMostOneOutcome ==
    EdgesDone =>
        /\ Cardinality(raised) + (IF ppc = "kill" THEN 1 ELSE 0) <= 1
        /\ (Item(status, 0) = 0 /\ Item(status1, 0) > 1) => (raised = {} /\ ppc = "kill")

\* "0 100 900 0 0" followed directly by "3 100 900 500 0"
C20_Witness ==
    /\ ppc = "kill"
    /\ raised = {}
    /\ status = <<0, 100, 900, 0, 0>>
    /\ status1 = <<3, 100, 900, 500, 0>>

(***************************************************************************)
(* Properties of Channelclient.read (ReadSpec)                             *)
(***************************************************************************)
\* C9: however the stream is cut into deliveries of at most maxbuf bytes, read
\* returns ndata samples, those of a decode in one go of the first
\* ndata*data_size bytes sent.
C9_FragmentedReadIsSingleShot ==
    rpc = "returned" =>
        /\ Len(result) = ndata
        /\ result = frombuffer(SubSeq(sent, 1, ndata * data_size),
                               ItemSize(data_size), ndata)

C9_Witness ==
    /\ rpc = "returned"
    /\ ndata = 2
    /\ data_size = 4
    /\ maxbuf = 3
    /\ Len(wire) = 0
    /\ result[1] < 0

\* C10: once recv has reported the connection closed (b'') with fewer than
\* ndata*data_size bytes received, read does not go on to receive again.
C10_ClosedEarlyFails ==
    ~(rpc = "recv" /\ eofs > 0 /\ Len(buffer) < ndata * data_size)

\* C11: read never takes more than ndata*data_size bytes from the socket.
C11_NoByteBeyondCount ==
    Len(buffer) <= ndata * data_size

\* the field of vector v that the specification assigns to accessor a:
\* {state, pre, post, elapsed, demux} in order, samples = pre + post
FieldOf(v, a) ==
    CASE a = "state" -> v[1]
      [] a = "pre_samples" -> v[2]
      [] a = "post_samples" -> v[3]
      [] a = "elapsed_samples" -> v[4]
      [] a = "demux_status" -> v[5]
      [] a \in Sums -> v[2] + v[3]

\* C12: on a handle constructed with monitor=False, every snapshot accessor
\* that has finished has returned the corresponding field of the vector seeded
\* at construction.
C12_UnmonitoredHandleAnswers ==
    (~statmon /\ apc \in {"returned", "raised"} /\ acc # "read_chan")
        => (apc = "returned" /\ aret = FieldOf(seed, acc))

\* C13: on a monitored handle each single-field accessor returns its field of
\* the latest snapshot (state 1st, pre 2nd, post 3rd, elapsed 4th, demux 5th),
\* and samples() over an unchanged snapshot returns pre + post.
C13_AccessorReturnsItsField ==
    [][ /\ (statmon /\ apc = "idle" /\ acc' \in Accessors \ Sums)
            => (apc' = "returned" /\ aret' = FieldOf(status, acc'))
        /\ (statmon /\ apc = "mid" /\ acc = "samples" /\ apc' # "mid"
              /\ status = asnap)
            => (apc' = "returned" /\ aret' = FieldOf(status, "samples"))
      ]_vars

Requested ==
    IF selection.items = <<>> THEN Range(1, NCHAN + 1) ELSE selection.items

SampleCount == Item(status, sf_PRE) + Item(status, sf_POST)

\* C14: the reads of read_channels follow one another (each start is followed
\* by the end of the same channel before the next start), and the list it
\* returns holds one buffer per requested channel in the requested order, an
\* empty selection standing for all channels and an int for that one channel.
C14_OneBufferPerRequestedChannel ==
    /\ \A k \in 1..Len(clog) :
           /\ clog[k][1] = (IF k % 2 = 1 THEN "start" ELSE "end")
           /\ (k % 2 = 0) => (clog[k][2] = clog[k - 1][2])
    /\ (cpc = "returned")
           => (chx = [k \in 1..Len(Requested) |-> ChannelData(Requested[k], SampleCount)])

\* the whitespace-separated fields of a text
RECURSIVE Words(_)
Words(x) ==
    IF Len(x) = 0 THEN <<>>
    ELSE IF x[1] = " " THEN Words(Tail(x))
    ELSE LET e == IF \E i \in 1..Len(x) : x[i] = " "
                  THEN (CHOOSE i \in 1..Len(x) :
                            x[i] = " " /\ \A j \in 1..(i - 1) : x[j] # " ") - 1
                  ELSE Len(x)
         IN <<SubSeq(x, 1, e)>> \o Words(SubSeq(x, e + 1, Len(x)))

\* the decimal text of a natural number
RECURSIVE Str(_)
Str(n) ==
    LET d == CHOOSE c \in Digits : DigitVal(c) = n % 10
    IN IF n < 10 THEN <<d>> ELSE Str(n \div 10) \o <<d>>

\* a vector written as a record: its integers in decimal, single spaces between
Serialize(v) == Join([k \in 1..Len(v) |-> Str(v[k])])

\* C16: once the poller is through with a valid record, the snapshot parsed
\* from it, written out again, carries the five field values of the record.
C16_ParseThenSerializeKeepsFields ==
    (ppc \in {"store", "kill", "loop"} /\ st # NoRecord)
        => /\ Matched
           /\ Ints(Words(Serialize(status1))) = Ints(Words(st))
====
